---- MODULE Spec2Model ----
(***************************************************************************)
(* Model of the Demand-MLops collection and merge code:                    *)
(*   - merge_to_all_csv      (src/prefect_flows/merge_to_all.py)           *)
(*   - split_by_month and download_all_by_months                           *)
(*                           (src/fetch_data/collect_pv.py)                *)
(*   - normalize_date_format and daily_weather_collection_flow             *)
(*                           (src/prefect_flows/prefect_pipeline.py)       *)
(* A CSV file is a record [exists, cols, rows]; a row is a record with one *)
(* field per column the model follows.  A column that a table does not     *)
(* carry holds the missing marker in every row (what pd.concat fills in).  *)
(***************************************************************************)
EXTENDS Integers, Sequences, FiniteSets, TLC

VARIABLES
    masterFile,   \* the master CSV (asos_all_merged.csv)
    lastCall,     \* the latest merge_to_all_csv call and its outcome
    planIn,       \* the arguments given to split_by_month
    planOut,      \* what split_by_month returned or raised
    fpc,          \* where download_all_by_months stands
    fin,          \* the prompted filter fields and date range
    month_ranges, \* the windows of the run
    idx,          \* the 1-based number of the window being fetched
    session,      \* the aiohttp.ClientSession: "none", "open", "closed"
    resp,         \* content type and body read from the data response
    files,        \* OUTPUT_DIR: the set of [name, body] written
    inputErrors,  \* how many times the date prompts reported an error
    log,          \* what the run did so far, in order
    rproc,        \* two concurrent merge_to_all_csv calls, each with its locals
    raceStart,    \* the master file as the two calls found it
    writeOrder,   \* the calls that wrote the master, in the order they wrote
    flowIn,       \* the argument of daily_weather_collection_flow and the clock
    flow_pc,      \* where the flow function stands
    target_date,  \* the flow's local target_date once it is set
    futures,      \* the state of each submitted task run
    flowLog       \* task runs and notifications of the flow run, in order

mergeVars == <<masterFile, lastCall>>

planVars == <<planIn, planOut>>

fetchVars == <<fpc, fin, month_ranges, idx, session, resp, files, inputErrors, log>>

raceVars == <<rproc, raceStart, writeOrder>>

flowVars == <<flowIn, flow_pc, target_date, futures, flowLog>>

vars == <<masterFile, lastCall, planIn, planOut,
          fpc, fin, month_ranges, idx, session, resp, files, inputErrors, log,
          rproc, raceStart, writeOrder,
          flowIn, flow_pc, target_date, futures, flowLog>>

(***************************************************************************)
(* Bounds of the model                                                     *)
(***************************************************************************)
MaxBatchLen == 2

MaxMasterLen == 3

\* How many rejected date entries a run is followed through.
MaxInputErrors == 2

(***************************************************************************)
(* Tables                                                                  *)
(***************************************************************************)
\* Missing markers (NaT / NaN) of the three followed columns.
NaT == 0

NaN == 0

NoName == "NaN"

Range(seq) == { seq[i] : i \in 1..Len(seq) }

\* The column sets a collected CSV is given in the model.
ColSets == {{"date", "station_name", "hour"}, {"date", "station_name"},
            {"station_name", "hour"}}

MkRow(d, s, h, v) == [date |-> d, station_name |-> s, hour |-> h, value |-> v]

\* Observations the batches are drawn from: one, and others that differ
\* from it in the value only, the hour, the station, or the timestamp.
Observations ==
    { MkRow(2, "A", 1, 10), MkRow(2, "A", 1, 20), MkRow(2, "A", 2, 10),
      MkRow(2, "B", 1, 10), MkRow(1, "A", 1, 10) }

\* A row as it is read from a file that carries the columns cols only.
Restrict(r, cols) ==
    [date         |-> IF "date" \in cols THEN r.date ELSE NaT,
     station_name |-> IF "station_name" \in cols THEN r.station_name ELSE NoName,
     hour         |-> IF "hour" \in cols THEN r.hour ELSE NaN,
     value        |-> r.value]

SeqsUpTo(S, n) == UNION { [1..k -> S] : k \in 0..n }

NoFile == [exists |-> FALSE, cols |-> {}, rows |-> <<>>]

File(cols, rows) == [exists |-> TRUE, cols |-> cols, rows |-> rows]

\* The new-batch files a call can be given (a path with no file included).
NewFiles ==
    {NoFile} \cup
    UNION { { File(cols, rows) :
                rows \in SeqsUpTo({Restrict(r, cols) : r \in Observations}, MaxBatchLen) }
            : cols \in ColSets }

(***************************************************************************)
(* merge_to_all_csv                                                        *)
(***************************************************************************)
\* Lines 62-97: the duplicate criterion, chosen from the new batch's columns.
subset_cols(df_new) ==
    IF {"hour", "date", "station_name"} \subseteq df_new.cols
    THEN {"date", "station_name", "hour"}
    ELSE IF {"date", "station_name"} \subseteq df_new.cols
         THEN {"date", "station_name"}
         ELSE {}

\* Mutation of KeyOf: the measured value is joined on as well.
KeyOf_WithValue(r, subset) ==
    <<IF "date" \in subset THEN r.date ELSE NaT,
      IF "station_name" \in subset THEN r.station_name ELSE NoName,
      IF "hour" \in subset THEN r.hour ELSE NaN,
      r.value>>

\* The key of a row under a criterion (the columns DataFrame.merge joins on).
KeyOf(r, subset) ==
    <<IF "date" \in subset THEN r.date ELSE NaT,
      IF "station_name" \in subset THEN r.station_name ELSE NoName,
      IF "hour" \in subset THEN r.hour ELSE NaN>>

\* Lines 68, 85: df_merged[subset_cols].drop_duplicates()
df_merged_keys(df_merged, subset) ==
    { KeyOf(df_merged.rows[i], subset) : i \in 1..Len(df_merged.rows) }

\* Mutation of LeftOnly: the rows marked "both" are kept instead.
LeftOnly_KeepsBoth(r, keys, subset) == KeyOf(r, subset) \in keys

\* Line 77, 94: _merge == "left_only"
LeftOnly(r, keys, subset) == KeyOf(r, subset) \notin keys

\* Lines 71-77, 88-94: left merge with indicator, rows marked left_only kept
\* in the order of the new batch.
df_new_unique(df_new, df_merged, subset) ==
    LET keys == df_merged_keys(df_merged, subset)
    IN  SelectSeq(df_new.rows, LAMBDA r : LeftOnly(r, keys, subset))

\* Mutation of df_combined: only the new rows are written back.
df_combined_NewRowsOnly(df_merged, unique, newCols) == File(newCols, unique)

\* Lines 102-111: the table that is written back.
df_combined(df_merged, unique, newCols) ==
    IF Len(unique) > 0
    THEN File(df_merged.cols \cup newCols, df_merged.rows \o unique)
    ELSE df_merged

\* Mutation of Persisted: a row equal to an earlier one is not written.
Persisted_DropDuplicates(df) ==
    File(df.cols,
         LET RECURSIVE Keep(_, _)
             Keep(i, acc) ==
                 IF i > Len(df.rows) THEN acc
                 ELSE Keep(i + 1, IF \E j \in 1..Len(acc) : acc[j] = df.rows[i]
                                  THEN acc ELSE Append(acc, df.rows[i]))
         IN  Keep(1, <<>>))

\* Lines 113-119: the date column is converted to timestamps and the table
\* is written; no row is moved.
Persisted(df) == File(df.cols, df.rows)

\* Mutation of new_csv_exists: the new file is taken to be there.
new_csv_exists_Always(new) == TRUE

\* Line 38: new_csv_path.exists()
new_csv_exists(new) == new.exists

\* The whole call: its status, the master it leaves, and its counts.
merge_to_all_csv(new, master) ==
    IF ~new_csv_exists(new)
    THEN [status |-> "FileNotFoundError", master |-> master,
          added |-> 0, skipped |-> 0]
    ELSE IF ~master.exists
    THEN [status |-> "ok", master |-> Persisted(File(new.cols, new.rows)),
          added |-> Len(new.rows), skipped |-> 0]
    ELSE LET subset == subset_cols(new)
         IN  IF subset = {}
             THEN [status |-> "ok",
                   master |-> Persisted(df_combined(master, new.rows, new.cols)),
                   added |-> Len(new.rows), skipped |-> 0]
             ELSE IF ~(subset \subseteq master.cols)
             THEN [status |-> "KeyError", master |-> master,
                   added |-> 0, skipped |-> 0]
             ELSE LET unique == df_new_unique(new, master, subset)
                  IN  [status |-> "ok",
                       master |-> Persisted(df_combined(master, unique, new.cols)),
                       added |-> Len(unique),
                       skipped |-> Len(new.rows) - Len(unique)]

\* What is remembered of the latest call: its arguments, its outcome, and
\* whether it repeated the batch of a call that had just succeeded.
NoCall == [made |-> FALSE, new |-> NoFile, before |-> NoFile,
           status |-> "none", added |-> 0, skipped |-> 0, repeat |-> FALSE]

Callers == {1, 2}

NotStarted == [pc |-> "start", new |-> NoFile, df_merged |-> NoFile,
               readAt |-> 0, status |-> "none"]

RaceIdle ==
    /\ rproc = [p \in Callers |-> NotStarted]
    /\ raceStart = NoFile
    /\ writeOrder = <<>>

MergeIdle ==
    /\ masterFile = NoFile
    /\ lastCall = NoCall
    /\ RaceIdle

(***************************************************************************)
(* split_by_month (collect_pv.py).  A YYYYMMDD string is the number its    *)
(* eight digits spell; a date is a record [y, m, d].                       *)
(***************************************************************************)
IsLeap(y) == (y % 4 = 0 /\ y % 100 # 0) \/ y % 400 = 0

DaysInMonth(y, m) ==
    IF m = 2 THEN (IF IsLeap(y) THEN 29 ELSE 28)
    ELSE IF m \in {4, 6, 9, 11} THEN 30 ELSE 31

MkDate(y, m, d) == [y |-> y, m |-> m, d |-> d]

\* Whether datetime.strptime(s, "%Y%m%d") accepts the string.
Parses(s) ==
    LET y == s \div 10000
        m == (s \div 100) % 100
        d == s % 100
    IN  /\ y >= 1
        /\ m \in 1..12
        /\ d >= 1 /\ d <= DaysInMonth(y, m)

\* Lines 50-51
_to_date_yyyymmdd(s) == MkDate(s \div 10000, (s \div 100) % 100, s % 100)

\* Lines 54-55
_to_yyyymmdd(dt) == dt.y * 10000 + dt.m * 100 + dt.d

\* date.__le__ and date.__lt__
DateLe(a, b) ==
    \/ a.y < b.y
    \/ a.y = b.y /\ a.m < b.m
    \/ a.y = b.y /\ a.m = b.m /\ a.d <= b.d

\* Mutation of DateLt: no date is earlier than another.
DateLt_Never(a, b) == FALSE

DateLt(a, b) == DateLe(a, b) /\ a # b

\* dt + timedelta(days=1)
PlusOneDay(dt) ==
    IF dt.d < DaysInMonth(dt.y, dt.m) THEN MkDate(dt.y, dt.m, dt.d + 1)
    ELSE IF dt.m < 12 THEN MkDate(dt.y, dt.m + 1, 1)
    ELSE MkDate(dt.y + 1, 1, 1)

\* dt - timedelta(days=1)
MinusOneDay(dt) ==
    IF dt.d > 1 THEN MkDate(dt.y, dt.m, dt.d - 1)
    ELSE IF dt.m > 1 THEN MkDate(dt.y, dt.m - 1, DaysInMonth(dt.y, dt.m - 1))
    ELSE MkDate(dt.y - 1, 12, 31)

RECURSIVE PlusDays(_, _)
PlusDays(dt, n) == IF n = 0 THEN dt ELSE PlusDays(PlusOneDay(dt), n - 1)

\* Mutation of _month_end: windows of thirty days instead of calendar months.
_month_end_ThirtyDays(dt) == PlusDays(dt, 29)

\* Lines 58-63
_month_end(dt) ==
    LET next_month == IF dt.m = 12 THEN MkDate(dt.y + 1, 1, 1)
                      ELSE MkDate(dt.y, dt.m + 1, 1)
    IN  MinusOneDay(next_month)

\* Mutation of chunk_end: the window always runs to the month's end.
chunk_end_Unclamped(me, end) == me

\* Line 76
chunk_end(me, end) == IF DateLe(me, end) THEN me ELSE end

\* Lines 73-78: the loop, from cursor cur with the windows found so far.
RECURSIVE SplitLoop(_, _, _)
SplitLoop(cur, end, ranges) ==
    IF ~DateLe(cur, end) THEN ranges
    ELSE LET me == _month_end(cur)
             ce == chunk_end(me, end)
         IN  SplitLoop(PlusOneDay(ce), end,
                       Append(ranges, <<_to_yyyymmdd(cur), _to_yyyymmdd(ce)>>))

\* Lines 66-79: the windows, or the error raised.
split_by_month(date_s, date_e) ==
    IF ~Parses(date_s) \/ ~Parses(date_e)
    THEN [status |-> "ValueError", ranges |-> <<>>]
    ELSE LET start == _to_date_yyyymmdd(date_s)
             end == _to_date_yyyymmdd(date_e)
         IN  IF DateLt(end, start)
             THEN [status |-> "ValueError", ranges |-> <<>>]
             ELSE [status |-> "ok", ranges |-> SplitLoop(start, end, <<>>)]

\* The date strings split_by_month is given in the model: a leap year and
\* the year after it, with some strings that are no date.
PlanYears == {2024, 2025}

PlanDays == {1, 15, 28, 29, 30, 31}

PlanStrings == { y * 10000 + m * 100 + d : y \in PlanYears, m \in 1..12, d \in PlanDays }

NotPlanned == [status |-> "pending", ranges |-> <<>>]

PlanIdle ==
    /\ planIn = <<0, 0>>
    /\ planOut = NotPlanned

(***************************************************************************)
(* normalize_date_format and daily_weather_collection_flow                 *)
(* (prefect_pipeline.py).  A string is the sequence of its characters.     *)
(***************************************************************************)
DigitChars == <<"0", "1", "2", "3", "4", "5", "6", "7", "8", "9">>

\* str.replace(ch, ""): every occurrence of the character is removed.
Remove(str, ch) == SelectSeq(str, LAMBDA c : c # ch)

\* str.isdigit() on the characters the model uses
isdigit(str) == Len(str) > 0 /\ \A i \in 1..Len(str) : str[i] \in Range(DigitChars)

\* Lines 194-210: the normalized string, or the error raised.
normalize_date_format(date_str) ==
    LET normalized == Remove(Remove(date_str, "-"), "/")
    IN  IF Len(normalized) # 8 \/ ~isdigit(normalized)
        THEN [status |-> "ValueError", value |-> <<>>]
        ELSE [status |-> "ok", value |-> normalized]

\* The decimal digits of n in a field of the given width, zero padded.
RECURSIVE Digits(_, _)
Digits(n, width) ==
    IF width = 0 THEN <<>>
    ELSE Append(Digits(n \div 10, width - 1), DigitChars[(n % 10) + 1])

\* strftime("%Y%m%d")
strftime(dt) == Digits(dt.y, 4) \o Digits(dt.m, 2) \o Digits(dt.d, 2)

\* Lines 231-232: the day before the clock's date, as YYYYMMDD.
yesterday(now) == strftime(MinusOneDay(_to_date_yyyymmdd(now)))

\* The tasks of the flow in the order lines 245-254 submit them; each but the
\* first takes the future of the one before it as its argument.
Tasks == <<"collect_weather_data", "process_missing_values", "save_data", "merge_to_all">>

\* The retries of the task decorators (lines 74, 111, 147, 181).
retries ==
    [t \in Range(Tasks) |->
        IF t = "collect_weather_data" THEN 3 ELSE 2]

NoFuture == [state |-> "unsubmitted", attempts |-> 0]

\* Mutation of ResultRaises: result() returns whatever the task's state.
ResultRaises_Never(f) == FALSE

\* future.result() raises when the task run failed or never became ready.
ResultRaises(f) == f.state \in {"Failed", "NotReady"}

\* The dates the flow is started with: the spellings of some dates with a
\* hyphen, a slash or nothing after the year and after the month, and some
\* strings that are no spelling of a date.
FlowDates == {20240101, 20240229, 20241231, 20250101, 20251101, 20251399}

Separators == {<<>>, <<"-">>, <<"/">>}

Spellings(n) ==
    { SubSeq(Digits(n, 8), 1, 4) \o a \o SubSeq(Digits(n, 8), 5, 6) \o b
          \o SubSeq(Digits(n, 8), 7, 8) : a \in Separators, b \in Separators }

OtherStrings ==
    { <<>>,
      <<"t", "o", "d", "a", "y">>,
      <<"2", "0", "2", "4", ".", "0", "1", ".", "0", "1">>,
      <<"2", "0", "2", "4", "-", "1", "-", "1">>,
      <<"2", "0", "2", "4", "0", "1", "0", "x">>,
      <<"2", "0", "2", "4", "0", "1", "0", "1", "1">>,
      <<"0", "1", "-", "0", "1", "-", "2", "0", "2", "4">>,
      <<"-", "2", "0", "2", "4", "0", "1", "0", "1", "/">> }

FlowTargets == UNION { Spellings(n) : n \in FlowDates } \cup OtherStrings

\* The dates datetime.now() falls on.
FlowClock == {20240301, 20250101, 20251102}

FlowInputs ==
    [given : {FALSE}, target : {<<>>}, now : FlowClock]
        \cup [given : {TRUE}, target : FlowTargets, now : FlowClock]

FlowIdle ==
    /\ flowIn = [given |-> FALSE, target |-> <<>>, now |-> 0]
    /\ flow_pc = "idle"
    /\ target_date = <<>>
    /\ futures = [t \in Range(Tasks) |-> NoFuture]
    /\ flowLog = <<>>

(***************************************************************************)
(* download_all_by_months (collect_pv.py).  A header value is a sequence   *)
(* of characters.                                                          *)
(***************************************************************************)
PacingSeconds == 5

Upper == <<"A", "B", "C", "D", "E", "F", "G", "H", "I", "J", "K", "L", "M",
           "N", "O", "P", "Q", "R", "S", "T", "U", "V", "W", "X", "Y", "Z">>

LowerCase == <<"a", "b", "c", "d", "e", "f", "g", "h", "i", "j", "k", "l", "m",
               "n", "o", "p", "q", "r", "s", "t", "u", "v", "w", "x", "y", "z">>

LowerChar(c) ==
    IF \E k \in 1..Len(Upper) : Upper[k] = c
    THEN LowerCase[CHOOSE k \in 1..Len(Upper) : Upper[k] = c]
    ELSE c

\* Mutation of lower: the value is compared as it was declared.
lower_Unchanged(str) == str

\* str.lower()
lower(str) == [i \in 1..Len(str) |-> LowerChar(str[i])]

\* sub in str
Contains(sub, str) ==
    \E i \in 1..(Len(str) - Len(sub) + 1) : SubSeq(str, i, i + Len(sub) - 1) = sub

\* Line 173: the declared content type, lower-cased ("" without the header).
content_type(header) == lower(header)

\* Line 176
IsCsv(ct) == Contains(<<"c", "s", "v">>, ct)

\* Mutation of raise_for_status: no status raises.
raise_for_status_Never(status) == FALSE

\* Lines 154, 172: whether response.raise_for_status() raises.
raise_for_status(status) == status >= 400

\* Mutation of NeedsPacing: the run also sleeps after the last window.
NeedsPacing_Always(i, n) == i <= n

\* Line 185
NeedsPacing(i, n) == i < n

\* Lines 43-47: whether _validate_yyyymmdd accepts the string.
\* Mutation of _validate_yyyymmdd: every entry is accepted.
_validate_yyyymmdd_Any(s) == TRUE

_validate_yyyymmdd(s) == s >= 10000000 /\ s <= 99999999 /\ Parses(s)

\* Lines 99-109, as the list of the tag's parts.
_tag_for_filename(org_no, hoki_s, hoki_e) ==
    IF org_no = "" /\ hoki_s = "" /\ hoki_e = "" THEN <<"all">>
    ELSE <<IF org_no # "" THEN org_no ELSE "ALLORG">> \o
         (IF hoki_s # "" \/ hoki_e # ""
          THEN <<"H", IF hoki_s # "" THEN hoki_s ELSE "ALL",
                      IF hoki_e # "" THEN hoki_e ELSE "ALL">>
          ELSE <<>>)

\* Line 180: south_pv_{tag}_{ds}-{de}.csv
out_name(in, ds, de) ==
    <<"south_pv", _tag_for_filename(in.org_no, in.hoki_s, in.hoki_e), ds, de>>

\* Lines 82-96: the fields of the priming request's address.
_build_main_url(in, ds, de) ==
    [pageIndex |-> in.page_index, menuCd |-> "FN0912020217",
     strOrgNo |-> in.org_no, strHokiS |-> in.hoki_s, strHokiE |-> in.hoki_e,
     strDateS |-> ds, strDateE |-> de]

\* Mutation of post_data: the form carries the whole range, not the window.
post_data_WholeRange(in, ds, de) ==
    [pageIndex |-> in.page_index, menuCd |-> "FN0912020217",
     strOrgNo |-> in.org_no, strHokiS |-> in.hoki_s, strHokiE |-> in.hoki_e,
     strDateS |-> in.date_s, strDateE |-> in.date_e]

\* Lines 156-166: the fields of the data request's form.
post_data(in, ds, de) ==
    [pageIndex |-> in.page_index, menuCd |-> "FN0912020217",
     strOrgNo |-> in.org_no, strHokiS |-> in.hoki_s, strHokiE |-> in.hoki_e,
     strDateS |-> ds, strDateE |-> de]

\* What the prompts and the server can answer in the model.
OrgNos == {"", "84S1"}

HokiStarts == {"", "1"}

HokiEnds == {"", "2"}

PromptStrings == {20251101, 20251201, 20260115, 20251131, 251101}

Statuses == {200, 404, 500}

ContentTypes ==
    { <<"t", "e", "x", "t", "/", "c", "s", "v">>,
      <<"T", "e", "x", "t", "/", "C", "S", "V">>,
      <<"t", "e", "x", "t", "/", "h", "t", "m", "l">>,
      <<>> }

Bodies == {"rows", "page"}

NoInput == [page_index |-> "", org_no |-> "", hoki_s |-> "", hoki_e |-> "",
            date_s |-> 0, date_e |-> 0]

NoResp == [content_type |-> <<>>, body |-> ""]

FetchIdle ==
    /\ fpc = "prompt"
    /\ fin = NoInput
    /\ month_ranges = <<>>
    /\ idx = 0
    /\ session = "none"
    /\ resp = NoResp
    /\ files = {}
    /\ inputErrors = 0
    /\ log = <<>>

Window == month_ranges[idx]

\* Lines 122-146: the prompts; a bad date or an inverted range is reported
\* and the dates are asked again, a good range is split into windows.
PromptInputs ==
    /\ fpc = "prompt"
    /\ \E org \in OrgNos, hs \in HokiStarts, he \in HokiEnds,
          ds \in PromptStrings, de \in PromptStrings :
          IF /\ _validate_yyyymmdd(ds) /\ _validate_yyyymmdd(de)
             /\ ~DateLt(_to_date_yyyymmdd(de), _to_date_yyyymmdd(ds))
          THEN /\ fin' = [page_index |-> "1", org_no |-> org, hoki_s |-> hs,
                          hoki_e |-> he, date_s |-> ds, date_e |-> de]
               /\ month_ranges' = split_by_month(ds, de).ranges
               /\ fpc' = "session"
               /\ inputErrors' = inputErrors
          ELSE /\ inputErrors < MaxInputErrors
               /\ inputErrors' = inputErrors + 1
               /\ UNCHANGED <<fin, month_ranges, fpc>>
    /\ UNCHANGED <<idx, session, resp, files, log, mergeVars, planVars, raceVars, flowVars>>

\* Line 148: the session of the run is created.
OpenSession ==
    /\ fpc = "session"
    /\ session' = "open"
    /\ log' = Append(log, [ev |-> "OPEN"])
    /\ fpc' = "loop"
    /\ UNCHANGED <<fin, month_ranges, idx, resp, files, inputErrors, mergeVars, planVars, raceVars, flowVars>>

\* Line 149: the loop takes the next window, or ends after the last one.
LoopNext ==
    /\ fpc = "loop"
    /\ IF idx < Len(month_ranges)
       THEN idx' = idx + 1 /\ fpc' = "prime"
       ELSE idx' = idx /\ fpc' = "exit"
    /\ UNCHANGED <<fin, month_ranges, session, resp, files, inputErrors, log,
                   mergeVars, planVars, raceVars, flowVars>>

\* Lines 150-154: the priming request of the window and its status.
Prime ==
    /\ fpc = "prime"
    /\ \E status \in Statuses :
          /\ log' = Append(log, [ev |-> "GET", idx |-> idx, status |-> status,
                                 q |-> _build_main_url(fin, Window[1], Window[2])])
          /\ fpc' = IF raise_for_status(status) THEN "raise" ELSE "post"
    /\ UNCHANGED <<fin, month_ranges, idx, session, resp, files, inputErrors, mergeVars, planVars, raceVars, flowVars>>

\* Lines 156-173: the data request of the window, its status and headers.
Post ==
    /\ fpc = "post"
    /\ \E status \in Statuses, header \in ContentTypes :
          /\ log' = Append(log, [ev |-> "POST", idx |-> idx, status |-> status,
                                 q |-> post_data(fin, Window[1], Window[2]),
                                 referer |-> _build_main_url(fin, Window[1], Window[2]),
                                 header |-> header])
          /\ IF raise_for_status(status)
             THEN fpc' = "raise" /\ resp' = resp
             ELSE /\ fpc' = "read"
                  /\ resp' = [content_type |-> content_type(header), body |-> ""]
    /\ UNCHANGED <<fin, month_ranges, idx, session, files, inputErrors, mergeVars, planVars, raceVars, flowVars>>

\* Line 174: the whole body of the data response is read.
ReadBody ==
    /\ fpc = "read"
    /\ \E body \in Bodies :
          /\ resp' = [resp EXCEPT !.body = body]
          /\ log' = Append(log, [ev |-> "READ", idx |-> idx, body |-> body])
    /\ fpc' = "classify"
    /\ UNCHANGED <<fin, month_ranges, idx, session, files, inputErrors, mergeVars, planVars, raceVars, flowVars>>

\* Lines 176-186: the response is rejected with a notice or saved; then the
\* run goes to sleep if another window follows.
Classify ==
    /\ fpc = "classify"
    /\ IF ~IsCsv(resp.content_type)
       THEN /\ log' = Append(log, [ev |-> "FAIL", idx |-> idx, ds |-> Window[1],
                                   de |-> Window[2],
                                   content_type |-> resp.content_type,
                                   preview |-> resp.body])
            /\ files' = files
       ELSE LET name == out_name(fin, Window[1], Window[2])
            IN  /\ files' = { f \in files : f.name # name }
                               \cup {[name |-> name, body |-> resp.body]}
                /\ log' = Append(log, [ev |-> "WRITE", idx |-> idx, name |-> name,
                                       body |-> resp.body])
    /\ fpc' = IF NeedsPacing(idx, Len(month_ranges)) THEN "sleep" ELSE "loop"
    /\ UNCHANGED <<fin, month_ranges, idx, session, resp, inputErrors, mergeVars, planVars, raceVars, flowVars>>

\* Line 187: the pacing sleep of the window.
Pace ==
    /\ fpc = "sleep"
    /\ log' = Append(log, [ev |-> "SLEEP", idx |-> idx, seconds |-> PacingSeconds])
    /\ fpc' = "loop"
    /\ UNCHANGED <<fin, month_ranges, idx, session, resp, files, inputErrors,
                   mergeVars, planVars, raceVars, flowVars>>

\* Line 148: the session is closed as the block is left after the loop.
Finish ==
    /\ fpc = "exit"
    /\ session' = "closed"
    /\ fpc' = "done"
    /\ UNCHANGED <<fin, month_ranges, idx, resp, files, inputErrors, log, mergeVars, planVars, raceVars, flowVars>>

\* Lines 148, 154, 172: the error leaves the session block and the function.
Raise ==
    /\ fpc = "raise"
    /\ session' = "closed"
    /\ fpc' = "raised"
    /\ UNCHANGED <<fin, month_ranges, idx, resp, files, inputErrors, log, mergeVars, planVars, raceVars, flowVars>>

InitFetch ==
    /\ FetchIdle
    /\ FlowIdle
    /\ MergeIdle
    /\ PlanIdle

NextFetch ==
    \/ PromptInputs
    \/ OpenSession
    \/ LoopNext
    \/ Prime
    \/ Post
    \/ ReadBody
    \/ Classify
    \/ Pace
    \/ Finish
    \/ Raise

SpecFetch == InitFetch /\ [][NextFetch]_vars

InitPlan ==
    /\ planIn \in PlanStrings \X PlanStrings
    /\ planOut = NotPlanned
    /\ MergeIdle
    /\ FetchIdle
    /\ FlowIdle

\* One call of split_by_month.
Plan ==
    /\ planOut.status = "pending"
    /\ planOut' = split_by_month(planIn[1], planIn[2])
    /\ UNCHANGED <<planIn, mergeVars, fetchVars, raceVars, flowVars>>

NextPlan == Plan

SpecPlan == InitPlan /\ [][NextPlan]_vars

Init ==
    /\ MergeIdle
    /\ PlanIdle
    /\ FetchIdle
    /\ FlowIdle

\* One call of merge_to_all_csv against the master file.
MergeCall ==
    \E new \in NewFiles :
        LET res == merge_to_all_csv(new, masterFile)
        IN  /\ Len(masterFile.rows) + Len(new.rows) <= MaxMasterLen
            /\ masterFile' = res.master
            /\ lastCall' = [made |-> TRUE, new |-> new, before |-> masterFile,
                            status |-> res.status, added |-> res.added,
                            skipped |-> res.skipped,
                            repeat |-> /\ lastCall.made
                                       /\ lastCall.status = "ok"
                                       /\ lastCall.new = new]
            /\ UNCHANGED <<planVars, fetchVars, raceVars, flowVars>>

Next == MergeCall

Spec == Init /\ [][Next]_vars

(***************************************************************************)
(* Two merge_to_all_csv calls running at once against one master file.     *)
(* A call reads the new batch, tests whether the master exists, reads it,  *)
(* and writes the combined table; nothing is held between these steps.     *)
(***************************************************************************)
RaceFiles == { f \in NewFiles : Len(f.rows) <= 1 }

\* Masters a run can find: none, or one left by an earlier merge.
RaceMasters ==
    { NoFile,
      File({"date", "station_name", "hour"}, <<MkRow(2, "A", 1, 10)>>) }

InitRace ==
    /\ masterFile \in RaceMasters
    /\ raceStart = masterFile
    /\ rproc = [p \in Callers |-> NotStarted]
    /\ writeOrder = <<>>
    /\ lastCall = NoCall
    /\ PlanIdle
    /\ FetchIdle
    /\ FlowIdle

\* Lines 38-43: the new batch is read, or the call raises without it.
ReadNew(p) ==
    /\ rproc[p].pc = "start"
    /\ \E new \in RaceFiles :
          rproc' = [rproc EXCEPT ![p].new = new,
                                 ![p].pc = IF new.exists THEN "check" ELSE "raised",
                                 ![p].status = IF new.exists THEN "none"
                                               ELSE "FileNotFoundError"]
    /\ UNCHANGED <<masterFile, raceStart, writeOrder, lastCall, planVars, fetchVars, flowVars>>

\* Line 47: merged_file.exists()
CheckMaster(p) ==
    /\ rproc[p].pc = "check"
    /\ rproc' = [rproc EXCEPT ![p].pc = IF masterFile.exists THEN "read" ELSE "write",
                              ![p].readAt = Len(writeOrder)]
    /\ UNCHANGED <<masterFile, raceStart, writeOrder, lastCall, planVars, fetchVars, flowVars>>

\* Line 49: the master is read as it is now.
ReadMaster(p) ==
    /\ rproc[p].pc = "read"
    /\ rproc' = [rproc EXCEPT ![p].df_merged = masterFile,
                              ![p].readAt = Len(writeOrder),
                              ![p].pc = "write"]
    /\ UNCHANGED <<masterFile, raceStart, writeOrder, lastCall, planVars, fetchVars, flowVars>>

\* Lines 52-119: the table is combined from what the call read and written
\* over the master file, or the call raises on a missing key column.
WriteMaster(p) ==
    /\ rproc[p].pc = "write"
    /\ LET res == merge_to_all_csv(rproc[p].new, rproc[p].df_merged)
       IN  IF res.status = "ok"
           THEN /\ masterFile' = res.master
                /\ writeOrder' = Append(writeOrder, p)
                /\ rproc' = [rproc EXCEPT ![p].pc = "done", ![p].status = "ok"]
           ELSE /\ rproc' = [rproc EXCEPT ![p].pc = "raised",
                                          ![p].status = res.status]
                /\ UNCHANGED <<masterFile, writeOrder>>
    /\ UNCHANGED <<raceStart, lastCall, planVars, fetchVars, flowVars>>

NextRace ==
    \/ \E p \in Callers : ReadNew(p)
    \/ \E p \in Callers : CheckMaster(p)
    \/ \E p \in Callers : ReadMaster(p)
    \/ \E p \in Callers : WriteMaster(p)

SpecRace == InitRace /\ [][NextRace]_vars

(***************************************************************************)
(* One run of daily_weather_collection_flow.  The flow function submits    *)
(* the four tasks and waits for their results while the task runner runs   *)
(* them, each once the task before it completed.                           *)
(***************************************************************************)
InitFlow ==
    /\ flowIn \in FlowInputs
    /\ flow_pc = "start"
    /\ target_date = <<>>
    /\ futures = [t \in Range(Tasks) |-> NoFuture]
    /\ flowLog = <<>>
    /\ MergeIdle
    /\ PlanIdle
    /\ FetchIdle

Event(ev, task, attempt, arg, ok) ==
    [ev |-> ev, task |-> task, attempt |-> attempt, arg |-> arg, ok |-> ok]

\* Lines 230-235: target_date is yesterday, or the normalized argument; the
\* ValueError of normalize_date_format leaves the flow before its try.
SetTargetDate ==
    /\ flow_pc = "start"
    /\ IF ~flowIn.given
       THEN /\ target_date' = yesterday(flowIn.now)
            /\ flow_pc' = "try"
       ELSE IF normalize_date_format(flowIn.target).status = "ok"
       THEN /\ target_date' = normalize_date_format(flowIn.target).value
            /\ flow_pc' = "try"
       ELSE /\ target_date' = target_date
            /\ flow_pc' = "raised"
    /\ UNCHANGED <<flowIn, futures, flowLog, mergeVars, planVars, fetchVars, raceVars>>

\* Lines 245-254: the four submits; the flow then waits at line 257.
SubmitTasks ==
    /\ flow_pc = "try"
    /\ futures' = [t \in Range(Tasks) |-> [state |-> "Pending", attempts |-> 0]]
    /\ flowLog' = flowLog \o
          [i \in 1..Len(Tasks) |-> Event("SUBMIT", Tasks[i], 0, target_date, TRUE)]
    /\ flow_pc' = "await_output_path"
    /\ UNCHANGED <<flowIn, target_date, mergeVars, planVars, fetchVars, raceVars>>

Upstream(i) == futures[Tasks[i - 1]]

\* The task runner runs a pending task whose upstream completed.  A run that
\* raises is retried while the task has retries left, then the task failed.
RunTask(i) ==
    /\ futures[Tasks[i]].state = "Pending"
    /\ i > 1 => Upstream(i).state = "Completed"
    /\ \E ok \in BOOLEAN :
          LET f == futures[Tasks[i]]
              attempt == f.attempts + 1
          IN  /\ futures' = [futures EXCEPT ![Tasks[i]] =
                    [state |-> IF ok THEN "Completed"
                               ELSE IF f.attempts < retries[Tasks[i]] THEN "Pending"
                               ELSE "Failed",
                     attempts |-> attempt]]
              /\ flowLog' = Append(flowLog, Event("RUN", Tasks[i], attempt, target_date, ok))
    /\ UNCHANGED <<flowIn, flow_pc, target_date, mergeVars, planVars, fetchVars, raceVars>>

\* A task whose upstream failed, or never became ready, is not run.
SkipTask(i) ==
    /\ i > 1
    /\ futures[Tasks[i]].state = "Pending"
    /\ Upstream(i).state \in {"Failed", "NotReady"}
    /\ futures' = [futures EXCEPT ![Tasks[i]].state = "NotReady"]
    /\ UNCHANGED <<flowIn, flow_pc, target_date, flowLog, mergeVars, planVars, fetchVars, raceVars>>

Settled(f) == f.state \in {"Completed", "Failed", "NotReady"}

\* Line 257: output_path_future.result()
AwaitOutputPath ==
    /\ flow_pc = "await_output_path"
    /\ Settled(futures["save_data"])
    /\ flow_pc' = IF ResultRaises(futures["save_data"]) THEN "except"
                  ELSE "await_merged_path"
    /\ UNCHANGED <<flowIn, target_date, futures, flowLog, mergeVars, planVars, fetchVars, raceVars>>

\* Line 258: merged_path_future.result()
AwaitMergedPath ==
    /\ flow_pc = "await_merged_path"
    /\ Settled(futures["merge_to_all"])
    /\ flow_pc' = IF ResultRaises(futures["merge_to_all"]) THEN "except"
                  ELSE "notify"
    /\ UNCHANGED <<flowIn, target_date, futures, flowLog, mergeVars, planVars, fetchVars, raceVars>>

\* Lines 265-267: the success notification is submitted, the flow returns.
NotifySuccess ==
    /\ flow_pc = "notify"
    /\ flowLog' = Append(flowLog, Event("SUBMIT", "notify_slack_success", 0, target_date, TRUE))
    /\ flow_pc' = "returned"
    /\ UNCHANGED <<flowIn, target_date, futures, mergeVars, planVars, fetchVars, raceVars>>

\* Lines 269-278: the failure notification is submitted, the exception is
\* raised again.
NotifyFailure ==
    /\ flow_pc = "except"
    /\ flowLog' = Append(flowLog, Event("SUBMIT", "notify_slack_failure", 0, target_date, TRUE))
    /\ flow_pc' = "raised"
    /\ UNCHANGED <<flowIn, target_date, futures, mergeVars, planVars, fetchVars, raceVars>>

NextFlow ==
    \/ SetTargetDate
    \/ SubmitTasks
    \/ \E i \in 1..Len(Tasks) : RunTask(i)
    \/ \E i \in 1..Len(Tasks) : SkipTask(i)
    \/ AwaitOutputPath
    \/ AwaitMergedPath
    \/ NotifySuccess
    \/ NotifyFailure

SpecFlow == InitFlow /\ [][NextFlow]_vars

(***************************************************************************)
(* Claims about merge_to_all_csv                                           *)
(***************************************************************************)
HasKeyCols(f) == {"date", "station_name"} \subseteq f.cols

\* The rows the latest call appended to the master, in batch order.
Appended ==
    IF lastCall.status # "ok" THEN <<>>
    ELSE IF ~lastCall.before.exists \/ subset_cols(lastCall.new) = {}
         THEN lastCall.new.rows
         ELSE df_new_unique(lastCall.new, lastCall.before, subset_cols(lastCall.new))

\* C1 as stated: a call that repeats the batch of the call that has just
\* succeeded, against the master that call produced, adds no row and leaves
\* the master's row count unchanged, for any batch.
C1_IdempotentAnyBatch ==
    lastCall.repeat =>
        /\ lastCall.added = 0
        /\ Len(masterFile.rows) = Len(lastCall.before.rows)

\* C1 amended: the same, for a batch that carries the date and station_name
\* columns: the repeated call adds no row and leaves the master as it was.
C1_IdempotentKeyedBatch ==
    (lastCall.repeat /\ HasKeyCols(lastCall.new)) =>
        /\ lastCall.added = 0
        /\ masterFile = lastCall.before

C1_Witness ==
    /\ lastCall.repeat
    /\ HasKeyCols(lastCall.new)
    /\ Len(lastCall.new.rows) > 0
    /\ lastCall.skipped = Len(lastCall.new.rows)

NonDecreasing(rows) ==
    \A i \in 1..Len(rows) : \A j \in 1..Len(rows) :
        i < j => rows[i].date <= rows[j].date

\* The rows of a sequence that carry timestamp d, in their order.
WithDate(rows, d) == SelectSeq(rows, LAMBDA r : r.date = d)

\* C2: after a call that succeeded, the persisted master's timestamp column
\* is non-decreasing from first row to last, and rows of equal timestamp
\* are in their input order (the old master's rows, then the appended rows).
C2_MasterSortedByDate ==
    (/\ lastCall.made /\ lastCall.status = "ok"
     /\ "date" \in masterFile.cols
     /\ \A r \in Range(masterFile.rows) : r.date # NaT) =>
        /\ NonDecreasing(masterFile.rows)
        /\ \A d \in { r.date : r \in Range(masterFile.rows) } :
              WithDate(masterFile.rows, d) = WithDate(lastCall.before.rows \o Appended, d)

\* The identity key of a master row: timestamp, station and, when the table
\* has the column, sub-period.
IdentityKey(f, r) ==
    KeyOf(r, IF "hour" \in f.cols THEN {"date", "station_name", "hour"}
             ELSE {"date", "station_name"})

\* Every row of the table came from a batch with the key columns.
RowsCarryKey(f) ==
    /\ HasKeyCols(f)
    /\ \A r \in Range(f.rows) : r.date # NaT /\ r.station_name # NoName

\* C3: in a master built from batches that carry the key columns, no two
\* rows have the same identity key.
C3_MasterKeysUnique ==
    (masterFile.exists /\ RowsCarryKey(masterFile)) =>
        \A i \in 1..Len(masterFile.rows) : \A j \in 1..Len(masterFile.rows) :
            i # j => IdentityKey(masterFile, masterFile.rows[i])
                       # IdentityKey(masterFile, masterFile.rows[j])

\* The key of the fallback chain as the claim words it: a column counts
\* only when both tables carry it.
ChainKey(newCols, masterCols) ==
    LET both == newCols \cap masterCols
    IN  IF {"date", "station_name", "hour"} \subseteq both
        THEN {"date", "station_name", "hour"}
        ELSE IF {"date", "station_name"} \subseteq both
             THEN {"date", "station_name"}
             ELSE {}

\* C10: a call against an existing master succeeds having used the chain's
\* key: it appended exactly the batch rows whose key under that key the
\* old master did not hold, and every batch row when the chain ends empty.
C10_FallbackChain ==
    (lastCall.made /\ lastCall.new.exists /\ lastCall.before.exists) =>
        LET key == ChainKey(lastCall.new.cols, lastCall.before.cols)
            kept == IF key = {} THEN lastCall.new.rows
                    ELSE SelectSeq(lastCall.new.rows,
                           LAMBDA r : KeyOf(r, key)
                                        \notin df_merged_keys(lastCall.before, key))
        IN  /\ lastCall.status = "ok"
            /\ lastCall.added = Len(kept)
            /\ masterFile.rows = lastCall.before.rows \o kept

\* Two rows are the same observation under the key columns cols.
SameKey(r, q, cols) ==
    /\ "date" \in cols => r.date = q.date
    /\ "station_name" \in cols => r.station_name = q.station_name
    /\ "hour" \in cols => r.hour = q.hour

\* Whether table f holds a row that is the same observation as r.
KeyHeld(r, f, cols) == \E i \in 1..Len(f.rows) : SameKey(r, f.rows[i], cols)

\* A call that found a master and resolved a key both tables carry.
KeyedCall ==
    /\ lastCall.made /\ lastCall.new.exists /\ lastCall.before.exists
    /\ ChainKey(lastCall.new.cols, lastCall.before.cols) # {}
    /\ ChainKey(lastCall.new.cols, lastCall.before.cols) = subset_cols(lastCall.new)

IsPrefix(a, b) == Len(a) <= Len(b) /\ SubSeq(b, 1, Len(a)) = a

\* C11: whatever a call does, the rows the master held before it are still
\* its first rows, unchanged; and when the call resolved a key, no incoming
\* row whose key the master already held is appended, whatever its values.
C11_MasterRowsKept ==
    lastCall.made =>
        /\ IsPrefix(lastCall.before.rows, masterFile.rows)
        /\ KeyedCall =>
              \A i \in 1..Len(lastCall.new.rows) :
                  KeyHeld(lastCall.new.rows[i], lastCall.before, subset_cols(lastCall.new))
                      => \A k \in (Len(lastCall.before.rows) + 1)..Len(masterFile.rows) :
                            ~SameKey(masterFile.rows[k], lastCall.new.rows[i],
                                     subset_cols(lastCall.new))

\* An incoming row with the key of a master row and another value was
\* skipped, and the master row kept its value.
C11_Witness ==
    /\ KeyedCall
    /\ lastCall.status = "ok"
    /\ lastCall.before.rows = <<MkRow(2, "A", 1, 10)>>
    /\ MkRow(2, "A", 1, 20) \in Range(lastCall.new.rows)
    /\ lastCall.added = 1
    /\ masterFile.rows[1] = MkRow(2, "A", 1, 10)
    /\ MkRow(2, "A", 1, 20) \notin Range(masterFile.rows)

Count(seq, Test(_)) == Len(SelectSeq(seq, Test))

\* C12: a call that found a master and resolved a key skipped as many
\* incoming rows as have their key in the old master and added the others;
\* added + skipped is the batch size and the master grew by added.
C12_PartitionCounts ==
    KeyedCall =>
        LET cols == subset_cols(lastCall.new)
            held(r) == KeyHeld(r, lastCall.before, cols)
            fresh(r) == ~KeyHeld(r, lastCall.before, cols)
        IN  /\ lastCall.status = "ok"
            /\ lastCall.skipped = Count(lastCall.new.rows, held)
            /\ lastCall.added = Count(lastCall.new.rows, fresh)
            /\ lastCall.added + lastCall.skipped = Len(lastCall.new.rows)
            /\ Len(masterFile.rows) = Len(lastCall.before.rows) + lastCall.added

\* The scenario of the specification: a master of one row, a batch with
\* that row and one of the next hour.
C12_Witness ==
    /\ KeyedCall
    /\ lastCall.before.rows = <<MkRow(2, "A", 1, 10)>>
    /\ lastCall.new.rows = <<MkRow(2, "A", 1, 10), MkRow(2, "A", 2, 10)>>
    /\ lastCall.added = 1 /\ lastCall.skipped = 1
    /\ Len(masterFile.rows) = 2

\* C13: a call that finds no master creates it from the batch as it is:
\* every row added, none skipped, the same rows in the same order.
C13_MasterCreatedFromBatch ==
    (lastCall.made /\ lastCall.new.exists /\ ~lastCall.before.exists) =>
        /\ lastCall.status = "ok"
        /\ lastCall.added = Len(lastCall.new.rows)
        /\ lastCall.skipped = 0
        /\ masterFile.exists
        /\ masterFile.cols = lastCall.new.cols
        /\ masterFile.rows = lastCall.new.rows

C13_Witness ==
    /\ lastCall.made /\ ~lastCall.before.exists
    /\ Len(lastCall.new.rows) = 2
    /\ lastCall.new.rows[1] = lastCall.new.rows[2]
    /\ lastCall.added = 2
    /\ masterFile.exists

\* C14: a master that is one batch B1 merged into no master, and a batch B2
\* with the key columns whose keys none of B1's rows has: after the call
\* with B2 the master has len(B1) + len(B2) rows.
C14_Additivity ==
    (/\ lastCall.made /\ lastCall.new.exists /\ lastCall.before.exists
     /\ lastCall.before \in NewFiles
     /\ HasKeyCols(lastCall.new) /\ HasKeyCols(lastCall.before)
     /\ \A r \in Range(lastCall.new.rows) :
           ~KeyHeld(r, lastCall.before,
                    ChainKey(lastCall.new.cols, lastCall.before.cols))) =>
        Len(masterFile.rows) = Len(lastCall.before.rows) + Len(lastCall.new.rows)

\* C21: a call whose new-batch file does not exist raises FileNotFoundError
\* and leaves the master as it found it: an existing master keeps its
\* columns and rows, an absent master stays absent.
C21_MissingBatchLeavesMaster ==
    (lastCall.made /\ ~lastCall.new.exists) =>
        /\ lastCall.status = "FileNotFoundError"
        /\ lastCall.added = 0 /\ lastCall.skipped = 0
        /\ masterFile = lastCall.before
        /\ ~lastCall.before.exists => ~masterFile.exists

\* A call without its new file found a master with rows and left it alone.
C21_Witness ==
    /\ lastCall.made /\ ~lastCall.new.exists
    /\ lastCall.status = "FileNotFoundError"
    /\ lastCall.before.exists /\ Len(lastCall.before.rows) >= 2
    /\ masterFile = lastCall.before

\* The same call with no master to find: none was created.
C21_WitnessAbsent ==
    /\ lastCall.made /\ ~lastCall.new.exists
    /\ lastCall.status = "FileNotFoundError"
    /\ ~lastCall.before.exists /\ ~masterFile.exists

\* C18: a call that finds a master, when the date or station_name column
\* is missing from the batch or from the master, does not raise, skips
\* nothing and appends every incoming row to the master it persists.
C18_MissingKeyColumnsNonFatal ==
    (/\ lastCall.made /\ lastCall.new.exists /\ lastCall.before.exists
     /\ ~(HasKeyCols(lastCall.new) /\ HasKeyCols(lastCall.before))) =>
        /\ lastCall.status = "ok"
        /\ lastCall.added = Len(lastCall.new.rows)
        /\ lastCall.skipped = 0
        /\ masterFile.rows = lastCall.before.rows \o lastCall.new.rows

(***************************************************************************)
(* Claims about concurrent merges                                          *)
(***************************************************************************)
BothWrote == Len(writeOrder) = 2

FirstWriter == writeOrder[1]

LastWriter == writeOrder[2]

\* A batch row is in the table: the row itself when the batch has no key,
\* else a row with its key.
Present(r, new, table) ==
    IF subset_cols(new) = {} THEN r \in Range(table.rows)
    ELSE KeyOf(r, subset_cols(new)) \in df_merged_keys(table, subset_cols(new))

\* C9: of two calls that both wrote the master, when the last writer took
\* its view of the master before the first one wrote, the persisted master
\* is what the last writer's merge alone makes of the master the run
\* started with (the first writer's additions are gone unless the last
\* writer's batch has them too); when the last writer read the master after
\* the first one wrote, the rows of both batches are in the master.
C9_LastWriteWins ==
    BothWrote =>
        /\ rproc[FirstWriter].readAt = 0
        /\ rproc[LastWriter].readAt = 0 =>
              /\ masterFile = merge_to_all_csv(rproc[LastWriter].new, raceStart).master
              /\ \A r \in Range(masterFile.rows) :
                    r \in Range(raceStart.rows) \/ r \in Range(rproc[LastWriter].new.rows)
        /\ rproc[LastWriter].readAt = 1 =>
              \A p \in Callers : \A r \in Range(rproc[p].new.rows) :
                  Present(r, rproc[p].new, masterFile)

\* Both calls read before either wrote, and a row the first writer added
\* is not in the master.
C9_Witness ==
    /\ BothWrote
    /\ rproc[LastWriter].readAt = 0
    /\ raceStart.exists
    /\ \E r \in Range(rproc[FirstWriter].new.rows) :
          /\ ~Present(r, rproc[FirstWriter].new, raceStart)
          /\ ~Present(r, rproc[FirstWriter].new, masterFile)

(***************************************************************************)
(* Claims about split_by_month                                             *)
(***************************************************************************)
\* The proleptic Gregorian ordinal of a date (date.toordinal).
RECURSIVE DaysBeforeMonth(_, _)
DaysBeforeMonth(y, m) ==
    IF m = 1 THEN 0 ELSE DaysBeforeMonth(y, m - 1) + DaysInMonth(y, m - 1)

Ordinal(dt) ==
    365 * (dt.y - 1) + ((dt.y - 1) \div 4) - ((dt.y - 1) \div 100)
        + ((dt.y - 1) \div 400) + DaysBeforeMonth(dt.y, dt.m) + dt.d

OrdinalOf(s) == Ordinal(_to_date_yyyymmdd(s))

PlanInputValid ==
    /\ Parses(planIn[1]) /\ Parses(planIn[2])
    /\ OrdinalOf(planIn[1]) <= OrdinalOf(planIn[2])

\* C4: for start <= end, split_by_month returns a non-empty list of windows
\* of calendar dates, each with start <= end, the first starting at start,
\* the last ending at end, each next one starting the day after the previous
\* one ends (so the windows are disjoint and their union is [start, end]).
C4_WindowsCoverRange ==
    (planOut.status # "pending" /\ PlanInputValid) =>
        LET w == planOut.ranges
        IN  /\ planOut.status = "ok"
            /\ Len(w) >= 1
            /\ \A i \in 1..Len(w) :
                  /\ Parses(w[i][1]) /\ Parses(w[i][2])
                  /\ OrdinalOf(w[i][1]) <= OrdinalOf(w[i][2])
            /\ w[1][1] = planIn[1]
            /\ w[Len(w)][2] = planIn[2]
            /\ \A i \in 1..(Len(w) - 1) :
                  OrdinalOf(w[i + 1][1]) = OrdinalOf(w[i][2]) + 1

C4_Witness ==
    /\ planOut.status = "ok"
    /\ Len(planOut.ranges) >= 3
    /\ planIn[1] \div 10000 < planIn[2] \div 10000
    /\ planIn[1] % 100 # 1
    /\ planIn[2] % 100 = 15

\* The calendar month of a YYYYMMDD string, counted from year 0.
MonthIndex(s) == (s \div 10000) * 12 + ((s \div 100) % 100)

\* C15: for start <= end, split_by_month returns one window for each
\* calendar month from start's to end's, in order; a window starts and ends
\* in its month; every window but the first starts on day 1 and every window
\* but the last ends on the last day of its month.  2025-11-01..2025-12-01
\* gives (2025-11-01, 2025-11-30), (2025-12-01, 2025-12-01).
C15_OneWindowPerMonth ==
    (planOut.status # "pending" /\ PlanInputValid) =>
        LET w == planOut.ranges
        IN  /\ Len(w) = MonthIndex(planIn[2]) - MonthIndex(planIn[1]) + 1
            /\ \A i \in 1..Len(w) :
                  /\ MonthIndex(w[i][1]) = MonthIndex(planIn[1]) + i - 1
                  /\ MonthIndex(w[i][2]) = MonthIndex(w[i][1])
                  /\ i > 1 => w[i][1] % 100 = 1
                  /\ i < Len(w) => ~Parses(w[i][2] + 1)
            /\ planIn = <<20251101, 20251201>>
                  => w = << <<20251101, 20251130>>, <<20251201, 20251201>> >>

C15_Witness ==
    /\ planOut.status = "ok"
    /\ planIn = <<20241215, 20250301>>
    /\ planOut.ranges = << <<20241215, 20241231>>, <<20250101, 20250131>>,
                           <<20250201, 20250228>>, <<20250301, 20250301>> >>

\* C16: for two dates with end before start, split_by_month raises its
\* range error and returns no window.
C16_InvertedRangeRejected ==
    (/\ planOut.status # "pending"
     /\ Parses(planIn[1]) /\ Parses(planIn[2])
     /\ OrdinalOf(planIn[2]) < OrdinalOf(planIn[1])) =>
        /\ planOut.status = "ValueError"
        /\ planOut.ranges = <<>>

C16_Witness ==
    /\ planIn = <<20251201, 20251101>>
    /\ planOut.status = "ValueError"
    /\ planOut.ranges = <<>>

(***************************************************************************)
(* Claims about download_all_by_months                                     *)
(***************************************************************************)
NWindows == Len(month_ranges)

LogIdx == 1..Len(log)

IsRequest(e) == e.ev \in {"GET", "POST"}

\* A request that came back with a non-success status.
Failed(e) == IsRequest(e) /\ e.status >= 400

Handled(e) == e.ev \in {"WRITE", "FAIL"}

WindowName(i) == out_name(fin, month_ranges[i][1], month_ranges[i][2])

HasFile(i) == \E f \in files : f.name = WindowName(i)

\* C5: a request of window i that returns a non-success status is the last
\* thing the run does: nothing follows it in the log (no retry, no request
\* of a later window), window i gets no file, the run ends raising with the
\* session closed, and every file written before is still in place.
C5_TransportFailureFatal ==
    /\ \A k \in LogIdx :
          Failed(log[k]) =>
              /\ k = Len(log)
              /\ fpc \in {"raise", "raised"}
              /\ ~HasFile(log[k].idx)
              /\ \A j \in LogIdx : log[j].ev = "WRITE" =>
                    /\ log[j].idx < log[k].idx
                    /\ [name |-> log[j].name, body |-> log[j].body] \in files
    /\ fpc \in {"raise", "raised"} => (log # <<>> /\ Failed(log[Len(log)]))
    /\ fpc = "raised" => session = "closed"

C5_Witness ==
    /\ fpc = "raised"
    /\ idx = 2
    /\ log[Len(log)].ev = "POST"
    /\ \E j \in LogIdx : log[j].ev = "WRITE" /\ log[j].idx = 1
    /\ Cardinality(files) = 1

\* Whether a declared content type contains "csv" in any letter case.
DeclaresCsv(h) ==
    \E i \in 1..(Len(h) - 2) :
        h[i] \in {"c", "C"} /\ h[i + 1] \in {"s", "S"} /\ h[i + 2] \in {"v", "V"}

\* C6: once the data response of window i is read, the window is saved if
\* its declared content type contains "csv" (case-insensitive) and is
\* otherwise rejected with a notice that carries the window bounds and no
\* file; a rejection does not raise, and what follows it is the pacing
\* sleep and the priming request of window i+1.  Files exist for exactly
\* the windows saved.
C6_ContentRejectionNonFatal ==
    /\ \A k \in LogIdx :
          (log[k].ev = "READ" /\ k < Len(log)) =>
              LET i == log[k].idx
                  next == log[k + 1]
              IN  IF DeclaresCsv(log[k - 1].header)
                  THEN /\ next.ev = "WRITE" /\ next.idx = i
                       /\ next.name = WindowName(i)
                       /\ [name |-> next.name, body |-> log[k].body] \in files
                  ELSE /\ next.ev = "FAIL" /\ next.idx = i
                       /\ next.ds = month_ranges[i][1]
                       /\ next.de = month_ranges[i][2]
                       /\ ~HasFile(i)
                       /\ (k + 1 = Len(log)) =>
                             fpc \in {"sleep", "loop", "exit", "done"}
                       /\ (k + 2 <= Len(log)) =>
                             (log[k + 2].ev = "SLEEP" /\ i < NWindows)
                       /\ (k + 3 <= Len(log)) =>
                             (log[k + 3].ev = "GET" /\ log[k + 3].idx = i + 1)
    /\ \A f \in files : \E k \in LogIdx : log[k].ev = "WRITE" /\ log[k].name = f.name
    /\ (log # <<>> /\ log[Len(log)].ev = "READ") <=> fpc = "classify"

C6_Witness ==
    /\ fpc = "done"
    /\ \E k \in LogIdx : log[k].ev = "FAIL" /\ log[k].idx = 1
    /\ \E k \in LogIdx : log[k].ev = "WRITE" /\ log[k].idx = 2
    /\ \E k \in LogIdx : log[k].ev = "POST" /\ log[k].idx = 2
                           /\ log[k].header = <<"T", "e", "x", "t", "/", "C", "S", "V">>

Sleeps(i) == { k \in LogIdx : log[k].ev = "SLEEP" /\ log[k].idx = i }

\* C7: every pacing sleep follows the handling (save or rejection) of a
\* window that is not the last and is followed by the priming request of
\* the next window; no priming request of a window after the first comes
\* without it; a run that ended without raising slept exactly once after
\* each window but the last, n - 1 times in all.
C7_PacingBetweenWindows ==
    /\ \A k \in LogIdx :
          log[k].ev = "SLEEP" =>
              /\ log[k].idx < NWindows
              /\ log[k].seconds = 5
              /\ k > 1 /\ Handled(log[k - 1]) /\ log[k - 1].idx = log[k].idx
              /\ k < Len(log) =>
                    (log[k + 1].ev = "GET" /\ log[k + 1].idx = log[k].idx + 1)
    /\ \A k \in LogIdx :
          (log[k].ev = "GET" /\ log[k].idx > 1) =>
              (log[k - 1].ev = "SLEEP" /\ log[k - 1].idx = log[k].idx - 1)
    /\ fpc = "done" =>
          /\ \A i \in 1..NWindows :
                Cardinality(Sleeps(i)) = (IF i < NWindows THEN 1 ELSE 0)
          /\ Cardinality({ k \in LogIdx : log[k].ev = "SLEEP" }) = NWindows - 1
          /\ Handled(log[Len(log)]) /\ log[Len(log)].idx = NWindows

C7_Witness ==
    /\ fpc = "done"
    /\ NWindows = 3
    /\ \E k \in LogIdx : log[k].ev = "FAIL" /\ log[k].idx = 1
    /\ \E k \in LogIdx : log[k].ev = "WRITE" /\ log[k].idx = 2
    /\ Cardinality({ k \in LogIdx : log[k].ev = "SLEEP" }) = 2

\* C8: the run opens one session, before anything else, and requests only
\* while it is open; the priming requests go window by window in planner
\* order, each once, with the prompted filter fields and the window's
\* bounds; a data request comes right after the successful priming request
\* of its window and carries the same fields and bounds, with the priming
\* address as referer; a body is read right after its data request
\* succeeded; window i+1 is primed only after the body of window i is read.
C8_SequentialOneSession ==
    /\ log # <<>> => log[1].ev = "OPEN"
    /\ \A k \in LogIdx : k > 1 => log[k].ev # "OPEN"
    /\ fpc \in {"prime", "post", "read"} => session = "open"
    /\ \A k \in LogIdx :
          log[k].ev = "GET" =>
              LET i == log[k].idx
              IN  /\ i \in 1..NWindows
                  /\ log[k].q.strDateS = month_ranges[i][1]
                  /\ log[k].q.strDateE = month_ranges[i][2]
                  /\ log[k].q.strOrgNo = fin.org_no
                  /\ log[k].q.strHokiS = fin.hoki_s
                  /\ log[k].q.strHokiE = fin.hoki_e
                  /\ i = 1 => log[k - 1].ev = "OPEN"
                  /\ i > 1 => \E j \in 1..(k - 1) :
                                 log[j].ev = "READ" /\ log[j].idx = i - 1
                  /\ \A j \in 1..(k - 1) : log[j].ev = "GET" => log[j].idx < i
    /\ \A k \in LogIdx :
          log[k].ev = "POST" =>
              /\ log[k - 1].ev = "GET"
              /\ log[k - 1].idx = log[k].idx
              /\ log[k - 1].status < 400
              /\ log[k].q = log[k - 1].q
              /\ log[k].referer = log[k - 1].q
    /\ \A k \in LogIdx :
          log[k].ev = "READ" =>
              /\ log[k - 1].ev = "POST"
              /\ log[k - 1].idx = log[k].idx
              /\ log[k - 1].status < 400

C8_Witness ==
    /\ fpc = "done"
    /\ NWindows = 3
    /\ fin.org_no = "84S1" /\ fin.hoki_s = "1"
    /\ Cardinality({ k \in LogIdx : log[k].ev = "READ" }) = 3

\* An entry the prompt accepts: two eight-digit calendar dates, the end not
\* before the start.
ValidRange(ds, de) ==
    /\ ds \in 10000000..99999999 /\ de \in 10000000..99999999
    /\ Parses(ds) /\ Parses(de)
    /\ OrdinalOf(ds) <= OrdinalOf(de)

NetworkStarted == session # "none" \/ log # <<>>

IsDigit(c) == c \in {"0", "1", "2", "3", "4", "5", "6", "7", "8", "9"}

\* YYYYMMDD, YYYY-MM-DD or YYYY/MM/DD: digits at the places of the letters.
IsThreeForm(str) ==
    \/ Len(str) = 8 /\ \A i \in 1..8 : IsDigit(str[i])
    \/ /\ Len(str) = 10
       /\ \A i \in (1..10) \ {5, 8} : IsDigit(str[i])
       /\ \E sep \in {"-", "/"} : str[5] = sep /\ str[8] = sep

\* The digits of a string, in order.
DigitsOf(str) == SelectSeq(str, IsDigit)

\* The number a string of digits spells.
RECURSIVE NumberOf(_)
NumberOf(str) ==
    IF str = <<>> THEN 0
    ELSE 10 * NumberOf(SubSeq(str, 1, Len(str) - 1))
            + (CHOOSE k \in 0..9 : DigitChars[k + 1] = str[Len(str)])

\* C19: once the flow has set its target date: a date given in one of the
\* three forms is normalized to its eight digits (the same for the three
\* spellings of a date) and normalizing the result again gives the result;
\* any other string given is rejected with an error and the flow submits
\* nothing; with no date given the target is yesterday; and every task that
\* takes the date takes this target.
C19_NormalizeDate ==
    flow_pc # "start" =>
        /\ ~flowIn.given =>
              /\ Len(target_date) = 8
              /\ Parses(NumberOf(target_date))
              /\ OrdinalOf(NumberOf(target_date)) = OrdinalOf(flowIn.now) - 1
        /\ (flowIn.given /\ IsThreeForm(flowIn.target)) =>
              /\ target_date = DigitsOf(flowIn.target)
              /\ normalize_date_format(target_date) =
                     [status |-> "ok", value |-> target_date]
        /\ (flowIn.given /\ ~IsThreeForm(flowIn.target)) =>
              /\ flow_pc = "raised"
              /\ target_date = <<>>
              /\ flowLog = <<>>
        /\ \A i \in 1..Len(flowLog) : flowLog[i].arg = target_date

\* The place of a task among the steps of the flow.
Rank(task) == CHOOSE k \in 1..Len(Tasks) : Tasks[k] = task

IsRun(i) == flowLog[i].ev = "RUN"

Submitted(task) ==
    \E i \in 1..Len(flowLog) : flowLog[i].ev = "SUBMIT" /\ flowLog[i].task = task

AnyTaskFailed == \E t \in Range(Tasks) : futures[t].state = "Failed"

\* C20: the steps run in the order collect, impute, save, merge: a step runs
\* only after the step before it returned a result, and no earlier step runs
\* after it.  The success notification is submitted only after merge_to_all
\* returned its result.  When a step failed and the flow is over, the
\* failure notification was submitted and the flow ended by raising.  The
\* two notifications are never both submitted.
C20_FlowOrderAndNotifications ==
    /\ \A i \in 1..Len(flowLog) : IsRun(i) =>
          /\ Rank(flowLog[i].task) > 1 =>
                \E j \in 1..(i - 1) :
                    /\ IsRun(j) /\ flowLog[j].ok
                    /\ Rank(flowLog[j].task) = Rank(flowLog[i].task) - 1
          /\ \A j \in (i + 1)..Len(flowLog) :
                IsRun(j) => Rank(flowLog[j].task) >= Rank(flowLog[i].task)
    /\ \A i \in 1..Len(flowLog) :
          (flowLog[i].ev = "SUBMIT" /\ flowLog[i].task = "notify_slack_success") =>
              \E j \in 1..(i - 1) :
                  IsRun(j) /\ flowLog[j].task = "merge_to_all" /\ flowLog[j].ok
    /\ (flow_pc \in {"returned", "raised"} /\ AnyTaskFailed) =>
          /\ flow_pc = "raised"
          /\ Submitted("notify_slack_failure")
    /\ flow_pc = "returned" => Submitted("notify_slack_success")
    /\ ~(Submitted("notify_slack_success") /\ Submitted("notify_slack_failure"))

\* A run in which collection needed a second attempt, the first three steps
\* returned and the merge failed after its retries.
C20_Witness ==
    /\ flow_pc = "raised"
    /\ futures["collect_weather_data"].attempts = 2
    /\ futures["save_data"].state = "Completed"
    /\ futures["merge_to_all"].state = "Failed"
    /\ Submitted("notify_slack_failure")
    /\ ~Submitted("notify_slack_success")

====
